---- MODULE Spec2Model ----
(***************************************************************************)
(* Verification model of the "thinking of you" bubble field: the ring-scan *)
(* circle packing (layoutBubbles) and the incremental renderer             *)
(* (renderBubbles, observeField) of src/unnamed/part_002, lines 211-641.   *)
(*                                                                         *)
(* Numbers.  The program computes in IEEE doubles.  The model computes in  *)
(* fixed point: lengths and coordinates are integers counting 1/Unit of a  *)
(* pixel, cosines and sines are integers counting 1/TrigScale.  Every      *)
(* quantity that is not the result of Math.cos / Math.sin (sizes, radii,   *)
(* ring radii, the gap, the canvas centre, fallback positions) is exact in *)
(* this representation; candidate positions are rounded to 1/Unit pixel.   *)
(***************************************************************************)
EXTENDS Integers, Sequences, FiniteSets, TLC

VARIABLES
  \* one invocation of layoutBubbles, run one map callback at a time
  lbubbles,   \* argument bubbles
  lcanvas,    \* arguments <<containerW, containerH, cyOffset>>
  placed,     \* the closure variable `placed`: << [cx, cy, r], ... >>
  lout,       \* the entries returned by the callbacks run so far
  lfb,        \* history: lfb[k] iff entry k was produced by the fallback branch
  lpc,        \* "idle" (not called), "run" (inside map), "done" (returned)
  lprev       \* history: arguments and result of the invocation before this one

layoutVars == << lbubbles, lcanvas, placed, lout, lfb, lpc, lprev >>

VARIABLES
  \* the page: event source, containers and the renderer's module state
  docs,         \* docs[col]: ids of the documents of a collection, by ts ascending
  exists,       \* the containers document.getElementById finds
  csize,        \* csize[c]: <<width, height>> of container c as getBoundingClientRect reports it
  rafId,        \* rafId[c] of observeField(c): TRUE while the frame callback
                \* it names is requested and has not run
  queued,       \* queued[c]: the frame callbacks of observeField(c) that are
                \* requested and neither cancelled nor run
  dom,          \* dom[c]: the .bubble-anchor elements of container c in document order
  renderedIds,  \* renderedIds[c]: the known-id set of container c
  lastData,     \* lastData[c]: << >> while undefined, else << bubbleData >>
  measured,     \* history: the <<width, height>> measured by the last pass on c
  last          \* history: the handler that ran last and what its passes did

renderVars ==
  << docs, exists, csize, rafId, queued, dom, renderedIds, lastData, measured,
     last >>

VARIABLES
  \* the rest of the page
  clock,        \* new Date().getHours()
  shown         \* history: the hour, period and gradient of the last call of
                \* bubbleGradientFromTimestamp

VARIABLES
  \* initApp and the handlers it registers
  keyOk,        \* params.get('key') === myKey
  ipc,          \* initApp: "load" not called yet, "denied" returned at the
                \* guard, "running" ran to its end
  hiddenEls,    \* which of #app and #accessDenied carry the class 'hidden'
  subscribed,   \* the collections with an onSnapshot listener
  observed,     \* the containers a ResizeObserver observes
  wired,        \* the click listeners are added
  overlay,      \* which of 'hidden' and 'visible' #sidePanelOverlay carries
  pending,      \* callbacks requested and not yet run: the 460 ms timers of
                \* closePanel, the outer and inner frame callbacks of
                \* openPanel, the 2000 ms timers of recordThought
  lastPanel,    \* history: the panel handler that ran last
  btn,          \* #recordBtn: disabled, and which innerHTML it shows
  write         \* the addDoc of the last click: "none", "pending", "ok", "failed"

uiVars ==
  << keyOk, ipc, hiddenEls, subscribed, observed, wired, overlay, pending,
     lastPanel, btn, write >>

pageVars == << clock, shown, uiVars >>
vars == << layoutVars, renderVars, pageVars >>

(* ---------------------------------------------------------------------- *)
(* Fixed-point arithmetic                                                  *)
(* ---------------------------------------------------------------------- *)
Unit == 10
TrigScale == 10000
PiT == 31416
HalfPiT == 15708

\* round-half-away-from-zero division by a positive d
RoundDiv(n, d) == IF n >= 0 THEN (2 * n + d) \div (2 * d)
                            ELSE -((2 * (-n) + d) \div (2 * d))

CeilDiv(n, d) == (n + d - 1) \div d

Max(a, b) == IF a >= b THEN a ELSE b
Min(a, b) == IF a <= b THEN a ELSE b

\* cosine of y/TrigScale radians for 0 <= y <= HalfPiT, times TrigScale
CosQ(y) ==
  LET y2 == (y * y) \div TrigScale
      t5 == TrigScale - y2 \div 90
      t4 == TrigScale - (y2 * t5) \div (56 * TrigScale)
      t3 == TrigScale - (y2 * t4) \div (30 * TrigScale)
      t2 == TrigScale - (y2 * t3) \div (12 * TrigScale)
  IN  TrigScale - (y2 * t2) \div (2 * TrigScale)

\* sine of y/TrigScale radians for 0 <= y <= HalfPiT, times TrigScale
SinQ(y) ==
  LET y2 == (y * y) \div TrigScale
      t5 == TrigScale - y2 \div 110
      t4 == TrigScale - (y2 * t5) \div (72 * TrigScale)
      t3 == TrigScale - (y2 * t4) \div (42 * TrigScale)
      t2 == TrigScale - (y2 * t3) \div (20 * TrigScale)
      t1 == TrigScale - (y2 * t2) \div (6 * TrigScale)
  IN  (y * t1) \div TrigScale

\* Math.cos / Math.sin of x/TrigScale radians, 0 <= x < 2*PiT, times TrigScale
Cos(x) ==
  LET q == x \div HalfPiT
      y == x - q * HalfPiT
  IN  CASE q = 0 -> CosQ(y)
        [] q = 1 -> -SinQ(y)
        [] q = 2 -> -CosQ(y)
        [] OTHER -> SinQ(y)

Sin(x) ==
  LET q == x \div HalfPiT
      y == x - q * HalfPiT
  IN  CASE q = 0 -> SinQ(y)
        [] q = 1 -> CosQ(y)
        [] q = 2 -> -SinQ(y)
        [] OTHER -> -CosQ(y)

(* ---------------------------------------------------------------------- *)
(* The page: collections, containers, renderer state                       *)
(* ---------------------------------------------------------------------- *)
MaxDocs == 2

\* the two collections initApp listens to and the containers each one feeds
Collections == { "their", "my" }
Containers == { "theirBubbleField", "theirBubbleFieldLeft", "myBubbleField" }
FieldsOf(col) ==
  IF col = "their" THEN << "theirBubbleField", "theirBubbleFieldLeft" >>
  ELSE << "myBubbleField" >>

\* document ids a collection can hold, and each document's ts: the hour of one
\* day at which it was recorded
IdsOf(col) == IF col = "their" THEN { "a", "b", "c" } ELSE { "m" }
TsHour(id) == CASE id = "a" -> 7 [] id = "b" -> 8 [] id = "c" -> 23 [] OTHER -> 2

\* sizes a container is measured at: the design size and half of it; the
\* field of the right half of the panel is measured at the smaller one only
Sizes == { << 900, 680 >>, << 450, 340 >> }
SizesOf(c) == IF c = "myBubbleField" THEN { << 450, 340 >> } ELSE Sizes

NotMeasured == << -1, -1 >>
NotShown == [hour |-> -1, period |-> "", gradient |-> ""]
NoHandler ==
  [kind |-> "none", on |-> "", cancelled |-> FALSE, after |-> "",
   calls |-> << >>, passes |-> << >>]

\* bubbleGradientFromTimestamp has not been called
NothingShown ==
  /\ clock = 0
  /\ shown = NotShown

\* no callback of the panel or of the record button is requested
NonePending == [close |-> 0, outer |-> 0, inner |-> 0, enable |-> 0]

\* the elements as the page's markup gives them
Markup ==
  /\ overlay = { "hidden" }
  /\ pending = NonePending
  /\ lastPanel = "none"
  /\ btn = [disabled |-> FALSE, label |-> "plus"]
  /\ write = "none"

\* initApp has run with the right key
AppRunning ==
  /\ keyOk = TRUE
  /\ ipc = "running"
  /\ hiddenEls = { "accessDenied" }
  /\ subscribed = Collections
  /\ observed = exists
  /\ wired = TRUE
  /\ Markup

\* the renderer's state when the module is loaded: nothing delivered yet
PageLoaded ==
  /\ docs = [col \in Collections |-> << >>]
  /\ rafId = [c \in Containers |-> FALSE]
  /\ queued = [c \in Containers |-> 0]
  /\ dom = [c \in Containers |-> << >>]
  /\ renderedIds = [c \in Containers |-> { }]
  /\ lastData = [c \in Containers |-> << >>]
  /\ measured = [c \in Containers |-> NotMeasured]
  /\ last = NoHandler

(* ---------------------------------------------------------------------- *)
(* Bubble sizing                                                           *)
(* ---------------------------------------------------------------------- *)
BASE_SIZES == << 92, 112, 76, 130, 88, 106, 118, 80, 100, 96, 122, 84 >>
DesignHeight == 832
DefaultWidth == 900
DefaultHeight == 680

\* Math.round(n / d) for d > 0: the nearest integer, halves towards +infinity
MathRound(n, d) == (2 * n + d) \div (2 * d)

\* sizeForIndex(i, scale) with scale = num / den
SizeForIndex(i, num, den) ==
  MathRound(BASE_SIZES[(i % Len(BASE_SIZES)) + 1] * num, den)

\* rect.width || el.offsetWidth || 900 ; rect.height || el.offsetHeight || 680
ContainerW(sz) == IF sz[1] # 0 THEN sz[1] ELSE DefaultWidth
ContainerH(sz) == IF sz[2] # 0 THEN sz[2] ELSE DefaultHeight

\* variant: the main field's cluster centre is shifted down by the same amount
CyOffsetDown(c, containerH) ==
  IF c = "theirBubbleField" THEN MathRound(containerH, 10) ELSE 0

\* cyOffset = isMainField ? Math.round(-0.10 * containerH) : 0
CyOffset(c, containerH) ==
  IF c = "theirBubbleField" THEN MathRound(-containerH, 10) ELSE 0

\* variant: the size is taken by the index counted from the newest bubble
ScaledSizesFromEnd(n, containerW, containerH) ==
  [k \in 1..n |-> SizeForIndex(n - k, Min(containerW, containerH), DesignHeight)]

\* the sizes renderBubbles gives n bubbles: sizeForIndex(i, Math.min(W, H) / 832)
ScaledSizes(n, containerW, containerH) ==
  [k \in 1..n |-> SizeForIndex(k - 1, Min(containerW, containerH), DesignHeight)]

\* variant: the bubbles keep the size field they come with
ScaledDataAsGiven(bubbleData, containerW, containerH) == bubbleData

\* scaledData = bubbleData.map((b, i) => ({ ...b, size: sizeForIndex(i, scale) }))
ScaledData(bubbleData, containerW, containerH) ==
  LET Sized(sizes) ==
        [i \in 1..Len(bubbleData) |-> [bubbleData[i] EXCEPT !.size = sizes[i]]]
  IN  Sized(ScaledSizes(Len(bubbleData), containerW, containerH))

(* ---------------------------------------------------------------------- *)
(* layoutBubbles: the ring scan                                            *)
(* ---------------------------------------------------------------------- *)
GAP == 6
RingLimit == 800
RingStep == 2
ArcStep == 4
MinAngleSteps == 36
FallbackStep == 10

\* angleSteps = Math.max(36, Math.ceil(2 * Math.PI * ring / 4)); ring in 1/Unit px
AngleSteps(ring) ==
  Max(MinAngleSteps, CeilDiv(2 * PiT * ring, ArcStep * TrigScale * Unit))

\* angle = (a / angleSteps) * 2 * Math.PI, times TrigScale
Angle(a, n) == RoundDiv(2 * PiT * a, n)

\* px = cx + Math.cos(angle) * ring ; py = cy + Math.sin(angle) * ring
CandX(cx, ring, a, n) == cx + RoundDiv(Cos(Angle(a, n)) * ring, TrigScale)
CandY(cy, ring, a, n) == cy + RoundDiv(Sin(Angle(a, n)) * ring, TrigScale)

\* variant: the gap left out of the overlap test
TooCloseNoGap(px, py, r, p) ==
  LET dx == px - p.cx
      dy == py - p.cy
      m  == r + p.r
  IN  dx * dx + dy * dy < m * m

\* Math.sqrt(dx*dx + dy*dy) < r + p.r + 6
TooClose(px, py, r, p) ==
  LET dx == px - p.cx
      dy == py - p.cy
      m  == r + p.r + GAP * Unit
  IN  dx * dx + dy * dy < m * m

\* placed.some(p => ...)
Overlaps(px, py, r, sofar) ==
  \E k \in 1..Len(sofar) : TooClose(px, py, r, sofar[k])

\* "found" of the scan: a candidate centre, or NoCandidate (found === null)
NoCandidate == [ok |-> FALSE, px |-> 0, py |-> 0]

\* the candidate of angle index a on a ring overlaps no placed circle
Free(cx, cy, r, sofar, ring, a) ==
  ~Overlaps(CandX(cx, ring, a, AngleSteps(ring)),
            CandY(cy, ring, a, AngleSteps(ring)), r, sofar)

\* variant: the inner loop lacks `&& !found` and runs on, so that the last free
\* candidate of the ring overwrites the earlier ones
ScanAnglesKeepsLast(cx, cy, r, sofar, ring) ==
  LET Candidate(a) ==
        IF a < AngleSteps(ring)
        THEN [ok |-> TRUE,
              px |-> CandX(cx, ring, a, AngleSteps(ring)),
              py |-> CandY(cy, ring, a, AngleSteps(ring))]
        ELSE NoCandidate
  IN  Candidate(CHOOSE a \in 0..AngleSteps(ring) :
                  /\ a < AngleSteps(ring) => Free(cx, cy, r, sofar, ring, a)
                  /\ \A b \in (a + 1)..(AngleSteps(ring) - 1) :
                       ~Free(cx, cy, r, sofar, ring, b)
                  /\ a = AngleSteps(ring) =>
                       \A b \in 0..(a - 1) : ~Free(cx, cy, r, sofar, ring, b))

\* inner loop: for (let a = 0; a < angleSteps && !found; a++): the candidate
\* of the least angle index that is free, NoCandidate when the loop runs out
ScanAngles(cx, cy, r, sofar, ring) ==
  LET Candidate(a) ==
        IF a < AngleSteps(ring)
        THEN [ok |-> TRUE,
              px |-> CandX(cx, ring, a, AngleSteps(ring)),
              py |-> CandY(cy, ring, a, AngleSteps(ring))]
        ELSE NoCandidate
  IN  Candidate(CHOOSE a \in 0..AngleSteps(ring) :
                  /\ a < AngleSteps(ring) => Free(cx, cy, r, sofar, ring, a)
                  /\ \A b \in 0..(a - 1) : ~Free(cx, cy, r, sofar, ring, b))

\* variant: the rings stop at 80, a zero of the limit lost
LastRingShort(start) ==
  IF start > (RingLimit \div 10) * Unit THEN -1
  ELSE ((RingLimit \div 10) * Unit - start) \div (RingStep * Unit)

\* index of the last ring not exceeding 800 (-1: the first ring already does)
LastRing(start) ==
  IF start > RingLimit * Unit THEN -1
  ELSE (RingLimit * Unit - start) \div (RingStep * Unit)

\* the k-th ring of the outer loop
Ring(start, k) == start + k * RingStep * Unit

\* some candidate of the ring is free
HasFree(cx, cy, r, sofar, ring) ==
  \E a \in 0..(AngleSteps(ring) - 1) : Free(cx, cy, r, sofar, ring, a)

\* outer loop: for (let ring = minStartRadius; ring <= 800 && !found; ring += 2):
\* the candidate found on the first ring that has a free one
ScanRings(cx, cy, r, sofar, start) ==
  LET OnRing(k) ==
        IF k <= LastRing(start)
        THEN ScanAngles(cx, cy, r, sofar, Ring(start, k))
        ELSE NoCandidate
  IN  OnRing(CHOOSE k \in 0..(LastRing(start) + 1) :
               /\ k <= LastRing(start) => HasFree(cx, cy, r, sofar, Ring(start, k))
               /\ \A j \in 0..(k - 1) : ~HasFree(cx, cy, r, sofar, Ring(start, j)))

\* { ...b, k1: v1, ... }: the record b with the fields of extra added or replaced
Spread(b, extra) ==
  [f \in (DOMAIN b) \cup (DOMAIN extra) |->
     IF f \in DOMAIN extra THEN extra[f] ELSE b[f]]

\* const cx = containerW / 2 ; const cy = containerH / 2 + cyOffset
CenterX(containerW) == (containerW * Unit) \div 2
CenterY(containerH, cyOffset) == (containerH * Unit) \div 2 + cyOffset * Unit

\* the centre chosen for a bubble of radius r when `placed` is not empty: the
\* first candidate of the scan, else the fallback cx + placed.length * 10
ChooseCentre(r, sofar, cx, cy) ==
  LET Pick(found) ==
        [px |-> IF found.ok THEN found.px
                ELSE cx + Len(sofar) * FallbackStep * Unit,
         py |-> IF found.ok THEN found.py
                ELSE cy + Len(sofar) * FallbackStep * Unit,
         fallback |-> ~found.ok]
  IN  Pick(ScanRings(cx, cy, r, sofar, r + GAP * Unit))

\* variant: no special case for the first bubble, which is placed by the scan
\* like the others
PlaceOneScansFirst(size, sofar, cx, cy) ==
  LET r == (size * Unit) \div 2
      Entry(c) ==
        [placed |-> Append(sofar, [cx |-> c.px, cy |-> c.py, r |-> r]),
         at |-> [x |-> c.px - r, y |-> c.py - r, cx |-> c.px, cy |-> c.py],
         fallback |-> c.fallback]
  IN  Entry(ChooseCentre(r, sofar, cx, cy))

\* variant: the corner of the bounding box is pushed to `placed` as the centre
PlaceOneRecordsCorner(size, sofar, cx, cy) ==
  LET r == (size * Unit) \div 2
      Entry(c) ==
        [placed |-> Append(sofar, [cx |-> c.px - r, cy |-> c.py - r, r |-> r]),
         at |-> [x |-> c.px - r, y |-> c.py - r, cx |-> c.px, cy |-> c.py],
         fallback |-> c.fallback]
  IN  IF Len(sofar) = 0
      THEN [placed |-> Append(sofar, [cx |-> cx - r, cy |-> cy - r, r |-> r]),
            at |-> [x |-> cx - r, y |-> cy - r, cx |-> cx, cy |-> cy],
            fallback |-> FALSE]
      ELSE Entry(ChooseCentre(r, sofar, cx, cy))

\* variant: a circle placed by the fallback branch is not pushed to `placed`
PlaceOneDropsFallback(size, sofar, cx, cy) ==
  LET r == (size * Unit) \div 2
      Entry(c) ==
        [placed |-> IF c.fallback THEN sofar
                    ELSE Append(sofar, [cx |-> c.px, cy |-> c.py, r |-> r]),
         at |-> [x |-> c.px - r, y |-> c.py - r, cx |-> c.px, cy |-> c.py],
         fallback |-> c.fallback]
  IN  IF Len(sofar) = 0
      THEN [placed |-> Append(sofar, [cx |-> cx, cy |-> cy, r |-> r]),
            at |-> [x |-> cx - r, y |-> cy - r, cx |-> cx, cy |-> cy],
            fallback |-> FALSE]
      ELSE Entry(ChooseCentre(r, sofar, cx, cy))

\* the body of the map callback for a bubble of diameter `size`, given the
\* circles placed so far: the new `placed`, the fields x, y, cx, cy of the
\* returned entry, and whether the fallback branch produced them (which the
\* program does not record)
PlaceOne(size, sofar, cx, cy) ==
  LET r == (size * Unit) \div 2
      Entry(c) ==
        [placed |-> Append(sofar, [cx |-> c.px, cy |-> c.py, r |-> r]),
         at |-> [x |-> c.px - r, y |-> c.py - r, cx |-> c.px, cy |-> c.py],
         fallback |-> c.fallback]
  IN  IF Len(sofar) = 0
      THEN [placed |-> Append(sofar, [cx |-> cx, cy |-> cy, r |-> r]),
            at |-> [x |-> cx - r, y |-> cy - r, cx |-> cx, cy |-> cy],
            fallback |-> FALSE]
      ELSE Entry(ChooseCentre(r, sofar, cx, cy))

\* bubbles.map(callback) as far as the geometry goes: After[k] is `placed` and
\* the x, y, cx, cy of the entries once the first k callbacks have run
Geometry(sizes, containerW, containerH, cyOffset) ==
  LET Extend(before, s) ==
        [placed |-> s.placed, at |-> Append(before.at, s.at)]
      Callback(before, k) ==
        Extend(before, PlaceOne(sizes[k], before.placed, CenterX(containerW),
                                CenterY(containerH, cyOffset)))
      After[k \in 0..Len(sizes)] ==
        IF k = 0 THEN [placed |-> << >>, at |-> << >>]
        ELSE Callback(After[k - 1], k)
  IN  After[Len(sizes)].at

\* the arguments renderBubbles can pass to layoutBubbles
GeometryArgs ==
  { << ScaledSizes(n, ContainerW(sz), ContainerH(sz)), ContainerW(sz),
       ContainerH(sz), CyOffset(c, ContainerH(sz)) >> :
      n \in 1..MaxDocs, sz \in Sizes, c \in Containers }

\* Geometry over those arguments, computed once
GeometryTable ==
  [a \in GeometryArgs |-> Geometry(a[1], a[2], a[3], a[4])] @@ << >>

\* function layoutBubbles(bubbles, containerW, containerH, cyOffset = 0):
\* return bubbles.map(b => ({ ...b, x, y, cx, cy }))
LayoutBubbles(bubbles, containerW, containerH, cyOffset) ==
  LET Entries(at) == [k \in 1..Len(bubbles) |-> Spread(bubbles[k], at[k])]
  IN  IF Len(bubbles) = 0 THEN << >>
      ELSE Entries(GeometryTable[<< [k \in 1..Len(bubbles) |-> bubbles[k].size],
                                    containerW, containerH, cyOffset >>])

(* ---------------------------------------------------------------------- *)
(* Invocations of layoutBubbles                                            *)
(* ---------------------------------------------------------------------- *)
MaxLen == 3

\* circles handed to the layout: two small ones (an even and an odd diameter),
\* one whose first ring (794 + 6) is the last ring scanned, and one whose first
\* ring (800 + 6) already exceeds the limit
Circles ==
  { [id |-> "a", size |-> 6],    [id |-> "b", size |-> 7],
    [id |-> "c", size |-> 1588], [id |-> "d", size |-> 1600] }

IsSmall(c) == c.size < 100

\* input sequences of at most MaxLen circles in which no small circle follows a
\* large one (such a circle scans all 250,000 candidates up to ring 800)
LayoutInputs ==
  { q \in UNION { [1..n -> Circles] : n \in 0..MaxLen } :
      \A i \in 1..Len(q) : \A j \in 1..Len(q) :
         (i < j /\ ~IsSmall(q[i])) => ~IsSmall(q[j]) }

\* <<containerW, containerH, cyOffset>>: the design canvas of the main field
\* (cyOffset = Math.round(-0.10 * 680)), a centred canvas of half the size, and
\* a centred canvas little larger than the small circles
Canvases == { << 900, 680, -68 >>, << 450, 340, 0 >>, << 20, 16, 0 >> }

NoCall == [bubbles |-> << >>, canvas |-> << 0, 0, 0 >>, out |-> << >>, made |-> FALSE]

\* layoutBubbles not called yet
LayoutIdle ==
  /\ lbubbles = << >>
  /\ placed = << >>
  /\ lout = << >>
  /\ lfb = << >>
  /\ lpc = "idle"
  /\ lprev = NoCall

LInit ==
  /\ LayoutIdle
  /\ lcanvas \in Canvases
  /\ PageLoaded
  /\ NothingShown
  /\ exists = Containers
  /\ csize = [c \in Containers |-> << 450, 340 >>]
  /\ AppRunning

\* variant: `placed` lives outside the function and is not emptied on entry
EnterKeepsPlaced(bubbles) ==
  /\ lbubbles' = bubbles
  /\ placed' = placed
  /\ lout' = << >>
  /\ lfb' = << >>
  /\ lpc' = IF Len(bubbles) = 0 THEN "done" ELSE "run"

\* entry of layoutBubbles: if (!bubbles.length) return []; otherwise a fresh
\* `placed` and the map over the bubbles
Enter(bubbles) ==
  /\ lbubbles' = bubbles
  /\ placed' = << >>
  /\ lout' = << >>
  /\ lfb' = << >>
  /\ lpc' = IF Len(bubbles) = 0 THEN "done" ELSE "run"

\* a first invocation, with any input
LCall ==
  /\ lpc = "idle"
  /\ \E bubbles \in LayoutInputs : Enter(bubbles)
  /\ UNCHANGED << lcanvas, lprev, renderVars, pageVars >>

\* variant: the entries are collected newest first
LStepPrepend ==
  /\ lpc = "run"
  /\ Len(lout) < Len(lbubbles)
  /\ \E s \in { PlaceOne(lbubbles[Len(lout) + 1].size, placed,
                         CenterX(lcanvas[1]),
                         CenterY(lcanvas[2], lcanvas[3])) } :
         /\ placed' = s.placed
         /\ lout' = << Spread(lbubbles[Len(lout) + 1], s.at) >> \o lout
         /\ lfb' = << s.fallback >> \o lfb
  /\ UNCHANGED << lbubbles, lcanvas, lpc, lprev, renderVars, pageVars >>

\* variant: the cluster centre moves with the number of bubbles
LStepRecentred ==
  /\ lpc = "run"
  /\ Len(lout) < Len(lbubbles)
  /\ \E s \in { PlaceOne(lbubbles[Len(lout) + 1].size, placed,
                         CenterX(lcanvas[1]) - Len(lbubbles) * FallbackStep * Unit,
                         CenterY(lcanvas[2], lcanvas[3])) } :
         /\ placed' = s.placed
         /\ lout' = Append(lout, Spread(lbubbles[Len(lout) + 1], s.at))
         /\ lfb' = Append(lfb, s.fallback)
  /\ UNCHANGED << lbubbles, lcanvas, lpc, lprev, renderVars, pageVars >>

\* one callback of bubbles.map
LStep ==
  /\ lpc = "run"
  /\ Len(lout) < Len(lbubbles)
  /\ \E s \in { PlaceOne(lbubbles[Len(lout) + 1].size, placed,
                         CenterX(lcanvas[1]),
                         CenterY(lcanvas[2], lcanvas[3])) } :
         /\ placed' = s.placed
         /\ lout' = Append(lout, Spread(lbubbles[Len(lout) + 1], s.at))
         /\ lfb' = Append(lfb, s.fallback)
  /\ UNCHANGED << lbubbles, lcanvas, lpc, lprev, renderVars, pageVars >>

\* variant: map looks for one callback more than there are bubbles
LReturnOneMore ==
  /\ lpc = "run"
  /\ Len(lout) = Len(lbubbles) + 1
  /\ lpc' = "done"
  /\ UNCHANGED << lbubbles, lcanvas, placed, lout, lfb, lprev, renderVars, pageVars >>

\* map has run every callback: layoutBubbles returns lout
LReturn ==
  /\ lpc = "run"
  /\ Len(lout) = Len(lbubbles)
  /\ lpc' = "done"
  /\ UNCHANGED << lbubbles, lcanvas, placed, lout, lfb, lprev, renderVars, pageVars >>

ThisCall == [bubbles |-> lbubbles, canvas |-> lcanvas, out |-> lout, made |-> TRUE]

\* the next invocation has the same arguments
LCallAgain ==
  /\ lpc = "done"
  /\ lprev' = ThisCall
  /\ Enter(lbubbles)
  /\ UNCHANGED << lcanvas, renderVars, pageVars >>

\* the next invocation has the same arguments with one more bubble at the end
LCallAppended ==
  /\ lpc = "done"
  /\ \E c \in Circles :
       /\ Append(lbubbles, c) \in LayoutInputs
       /\ Enter(Append(lbubbles, c))
  /\ lprev' = ThisCall
  /\ UNCHANGED << lcanvas, renderVars, pageVars >>

\* the next invocation is unrelated: any input, nothing remembered of this one
LCallOther ==
  /\ lpc = "done"
  /\ \E bubbles \in LayoutInputs : Enter(bubbles)
  /\ lprev' = NoCall
  /\ UNCHANGED << lcanvas, renderVars, pageVars >>

LNext == LCall \/ LStep \/ LReturn \/ LCallAgain \/ LCallAppended \/ LCallOther

LayoutSpec == LInit /\ [][LNext]_vars

\* bubbles.map runs its callbacks one after the other and returns: JavaScript
\* runs a function to completion. The last conjunct is WF_vars(LStep) with
\* ENABLED <<LStep>>_vars written out: a callback can run exactly while map has
\* bubbles left
LayoutLive ==
  /\ LInit
  /\ [][LNext]_vars
  /\ WF_vars(LReturn)
  /\ \/ []<>~(lpc = "run" /\ Len(lout) < Len(lbubbles))
     \/ []<><<LStep>>_vars

(* ---------------------------------------------------------------------- *)
(* Properties of layoutBubbles (checked under LayoutSpec)                  *)
(* ---------------------------------------------------------------------- *)
Radius(e) == (e.size * Unit) \div 2

\* distance(centerA, centerB) >= sizeA/2 + sizeB/2 + 6
Clear(A, B) ==
  LET dx == A.cx - B.cx
      dy == A.cy - B.cy
      m  == Radius(A) + Radius(B) + GAP * Unit
  IN  dx * dx + dy * dy >= m * m

AllClear(out) ==
  \A i \in 1..Len(out) : \A j \in 1..Len(out) : i # j => Clear(out[i], out[j])

NoFallback == \A k \in 1..Len(lfb) : ~lfb[k]

\* C1: when no circle of the invocation was placed by the fallback branch,
\* every two distinct returned circles have their centres at least the sum of
\* their radii plus the 6px gap apart.
C1_ClearWithoutFallback == NoFallback => AllClear(lout)

C1_Witness == lpc = "done" /\ Len(lout) >= 3 /\ NoFallback

\* C2: for every input, of any length and any diameters, no two returned
\* circles have centres closer than the sum of their radii plus the 6px gap.
C2_NeverOverlaps == AllClear(lout)

\* C3: a circle for which the scan finds no candidate is placed at
\* (cx + 10n, cy + 10n), n the number of circles placed before it, is recorded
\* in `placed` with that centre and its radius, and the invocation goes on to
\* return one entry per input bubble.
C3_FallbackPlacement ==
  /\ \A k \in 1..Len(lout) :
       lfb[k] =>
         /\ lout[k].cx = CenterX(lcanvas[1]) + (k - 1) * FallbackStep * Unit
         /\ lout[k].cy = CenterY(lcanvas[2], lcanvas[3]) + (k - 1) * FallbackStep * Unit
         /\ k <= Len(placed)
         /\ placed[k] = [cx |-> lout[k].cx, cy |-> lout[k].cy, r |-> Radius(lout[k])]
  /\ lpc = "done" => Len(lout) = Len(lbubbles)

C3_Witness ==
  /\ lpc = "done"
  /\ \E k \in 1..Len(lout) : lfb[k] /\ k < Len(lout) /\ ~lfb[1]

\* C4: the result has the length of the input and its k-th entry carries the
\* id of the k-th input bubble, fallback placements included.
C4_OrderPreserved ==
  lpc = "done" =>
    /\ Len(lout) = Len(lbubbles)
    /\ \A k \in 1..Len(lout) : lout[k].id = lbubbles[k].id

C4_Witness ==
  /\ lpc = "done"
  /\ Len(lout) >= 3
  /\ lout[1].id # lout[2].id
  /\ \E k \in 1..Len(lout) : lfb[k]

\* C5: an invocation with the arguments of the invocation before it returns
\* the same placements: every entry it has produced equals the entry the
\* earlier invocation returned at that index, and so does the whole result.
C5_Deterministic ==
  (lprev.made /\ lprev.bubbles = lbubbles /\ lprev.canvas = lcanvas)
    => /\ \A k \in 1..Len(lout) : k <= Len(lprev.out) /\ lout[k] = lprev.out[k]
       /\ lpc = "done" => lout = lprev.out

C5_Witness ==
  /\ lpc = "done"
  /\ lprev.made
  /\ lprev.bubbles = lbubbles
  /\ Len(lout) >= 2

\* C7: the placements of S followed by c begin with the placements of S.
C7_AppendStable ==
  (/\ lpc = "done"
   /\ lprev.made
   /\ lprev.canvas = lcanvas
   /\ Len(lbubbles) = Len(lprev.bubbles) + 1
   /\ SubSeq(lbubbles, 1, Len(lprev.bubbles)) = lprev.bubbles)
    => SubSeq(lout, 1, Len(lprev.out)) = lprev.out

C7_Witness ==
  /\ lpc = "done"
  /\ lprev.made
  /\ Len(lprev.bubbles) >= 2
  /\ Len(lbubbles) = Len(lprev.bubbles) + 1
  /\ SubSeq(lbubbles, 1, Len(lprev.bubbles)) = lprev.bubbles

(* ---------------------------------------------------------------------- *)
(* The incremental renderer                                                *)
(* ---------------------------------------------------------------------- *)
\* variant: the first test reads h > 3
GetPeriodLateStart(h) ==
  CASE h > 3   /\ h < 8  -> "early-morning"
    [] h >= 8  /\ h < 11 -> "morning"
    [] h >= 11 /\ h < 14 -> "midday"
    [] h >= 14 /\ h < 18 -> "afternoon"
    [] h >= 18 /\ h < 20 -> "evening"
    [] h >= 20 /\ h < 23 -> "dusk"
    [] OTHER             -> "night"

\* function getPeriod(h)
GetPeriod(h) ==
  CASE h >= 3  /\ h < 8  -> "early-morning"
    [] h >= 8  /\ h < 11 -> "morning"
    [] h >= 11 /\ h < 14 -> "midday"
    [] h >= 14 /\ h < 18 -> "afternoon"
    [] h >= 18 /\ h < 20 -> "evening"
    [] h >= 20 /\ h < 23 -> "dusk"
    [] OTHER             -> "night"

\* const PERIOD_META: the two colours of each period's radial gradient
PERIOD_META ==
  [p \in { "early-morning", "morning", "midday", "afternoon", "evening",
           "dusk", "night" } |->
     CASE p = "early-morning" -> [gradient |-> "#FF7231, #8A3809", isDark |-> TRUE]
       [] p = "morning"       -> [gradient |-> "#FFEF96, #D39D0B", isDark |-> FALSE]
       [] p = "midday"        -> [gradient |-> "#528EFF, #FFDC7D", isDark |-> TRUE]
       [] p = "afternoon"     -> [gradient |-> "#96E3FF, #313F85", isDark |-> TRUE]
       [] p = "evening"       -> [gradient |-> "#1075FA, #1D115D", isDark |-> TRUE]
       [] p = "dusk"          -> [gradient |-> "#3807B4, #FFF1AA", isDark |-> TRUE]
       [] OTHER               -> [gradient |-> "#FFA071, #FFF788", isDark |-> FALSE]]

\* PERIOD_META[period].gradient; reading .gradient of a missing entry throws
GradientOf(period) ==
  IF period \in DOMAIN PERIOD_META THEN PERIOD_META[period].gradient
  ELSE "TypeError"

\* bubbleGradientFromTimestamp(ts), for a ts (or, without one, a clock) whose
\* getHours() is `hour`
BubbleGradientFromTimestamp(hour) == GradientOf(GetPeriod(hour))

\* snap.docs.map((d, i) => ({ id, ts, index: i, size: sizeForIndex(i), gradient }))
SnapshotBubbles(ids) ==
  [i \in 1..Len(ids) |->
     [id |-> ids[i], ts |-> TsHour(ids[i]), index |-> i - 1,
      size |-> SizeForIndex(i - 1, 1, 1),
      gradient |-> BubbleGradientFromTimestamp(TsHour(ids[i]))]]

\* what query(col, orderBy('ts', 'asc')) can deliver: at most MaxDocs documents
\* in ascending order of ts
SnapshotsOf(col) ==
  { q \in UNION { [1..n -> IdsOf(col)] : n \in 0..MaxDocs } :
      \A i \in 1..Len(q) : \A j \in 1..Len(q) :
         i < j => TsHour(q[i]) < TsHour(q[j]) }

IdsIn(q) == { q[k].id : k \in 1..Len(q) }
IdSeq(q) == [k \in 1..Len(q) |-> q[k].id]

\* variant: the selector names the inner .bubble, which carries no data-id
QuerySelectorInner(anchors, id) == 0

\* el.querySelector(`.bubble-anchor[data-id="${id}"]`): index of the first
\* element of `anchors` with that id, 0 when there is none
QuerySelector(anchors, id) ==
  IF \E k \in 1..Len(anchors) : anchors[k].id = id
  THEN CHOOSE k \in 1..Len(anchors) :
         /\ anchors[k].id = id
         /\ \A j \in 1..(k - 1) : anchors[j].id # id
  ELSE 0

\* index of id in a snapshot, 0 when absent
IndexOf(q, id) ==
  IF \E k \in 1..Len(q) : q[k].id = id
  THEN CHOOSE k \in 1..Len(q) : q[k].id = id /\ \A j \in 1..(k - 1) : q[j].id # id
  ELSE 0

\* variant: the ids of the removed nodes stay in the known-id set
ForgetKeepsKnown(known, gone) == known

\* known.delete(node.dataset.id) for every removed node
Forget(known, gone) == known \ IdsIn(gone)

\* variant: every element is removed before the pass, as by el.innerHTML = ''
StaleAll(anchors, currentIds) == anchors

\* el.querySelectorAll('.bubble-anchor[data-id]').forEach(node =>
\*   if (!currentIds.has(node.dataset.id)) ...): the nodes the pass removes
Stale(anchors, currentIds) ==
  SelectSeq(anchors, LAMBDA e : e.id \notin currentIds)

\* variant: the update branch writes the centre where the create branch writes
\* the top-left corner
StyledByCentre(e, b) ==
  [e EXCEPT !.left = b.cx, !.top = b.cy, !.size = b.size, !.gradient = b.gradient]

\* the style the update branch writes for a laid-out bubble b
Styled(e, b) ==
  [e EXCEPT !.left = b.x, !.top = b.y, !.size = b.size, !.gradient = b.gradient]

\* variant: the create branch leaves out anchor.dataset.id = b.id
NewAnchorUnlabelled(b) ==
  [id |-> "", left |-> b.x, top |-> b.y, size |-> b.size, gradient |-> b.gradient]

\* the create branch's new .bubble-anchor element for a laid-out bubble b
NewAnchor(b) ==
  [id |-> b.id, left |-> b.x, top |-> b.y, size |-> b.size, gradient |-> b.gradient]

\* function renderBubbles(bubbleData, containerId) for an existing container c:
\* the container's elements and known-id set after the pass, and a record of
\* what the pass did
RenderBubbles(bubbleData, c) ==
  LET containerW == ContainerW(csize[c])
      containerH == ContainerH(csize[c])
      cyOffset   == CyOffset(c, containerH)
      scaledData == ScaledData(bubbleData, containerW, containerH)
      currentIds == IdsIn(bubbleData)
      gone       == Stale(dom[c], currentIds)
      kept       == SelectSeq(dom[c], LAMBDA e : e.id \notin IdsIn(gone))
      before     == IF lastData[c] = << >> THEN << >> ELSE lastData[c][1]
      \* the update branch and the create branch of laid.forEach for entry b,
      \* p being the container so far
      Update(p, b, existing) ==
        [dom |-> [p.dom EXCEPT ![existing] = Styled(@, b)],
         known |-> p.known,
         created |-> p.created,
         moved |-> IF /\ Styled(p.dom[existing], b).left = p.dom[existing].left
                      /\ Styled(p.dom[existing], b).top = p.dom[existing].top
                      /\ Styled(p.dom[existing], b).size = p.dom[existing].size
                   THEN p.moved ELSE p.moved \cup { b.id }]
      Create(p, b) ==
        [dom |-> Append(p.dom, NewAnchor(b)),
         known |-> p.known \cup { b.id },
         created |-> Append(p.created, b.id),
         moved |-> p.moved]
      ForEach(p, b) ==
        IF QuerySelector(p.dom, b.id) # 0
        THEN Update(p, b, QuerySelector(p.dom, b.id))
        ELSE Create(p, b)
      Result(done) ==
        [dom |-> done.dom,
         known |-> done.known,
         did |-> [c |-> c,
                  sameSize |-> measured[c] = csize[c],
                  sameData |-> lastData[c] = << bubbleData >>,
                  removed |-> IdSeq(gone),
                  created |-> done.created,
                  moved |-> done.moved,
                  reindexed |-> { id \in currentIds :
                                    /\ IndexOf(before, id) # 0
                                    /\ IndexOf(before, id) # IndexOf(bubbleData, id) }]]
      \* laid.forEach: After[k] is the container once k entries are handled
      Reconcile(laid) ==
        LET After[k \in 0..Len(laid)] ==
              IF k = 0
              THEN [dom |-> kept, known |-> Forget(renderedIds[c], gone),
                    created |-> << >>, moved |-> { }]
              ELSE ForEach(After[k - 1], laid[k])
        IN  Result(After[Len(laid)])
  IN  Reconcile(LayoutBubbles(scaledData, containerW, containerH, cyOffset))

\* variant: lastData is cached and the pass is run for a container that
\* getElementById does not find
PresentOrNot(fields) == { fields[k] : k \in 1..Len(fields) }

\* const el = document.getElementById(containerId); if (!el) return;
\* the containers of `fields` for which renderBubbles goes past this line
Present(fields) == { fields[k] : k \in 1..Len(fields) } \cap exists

\* variant: one cached snapshot for the page, lastData = bubbleData
CachedForAll(F) == IF F = { } THEN { } ELSE Containers

\* lastData[containerId] = bubbleData: the containers whose cached snapshot
\* the passes on the containers F replace
Cached(F) == F

\* renderBubbles(bubbleData, c) called for each container of `fields` in turn
\* by the handler of the given kind registered on `on` (a pass touches its own
\* container only)
RenderAll(bubbleData, fields, kind, on) ==
  LET F == Present(fields)
  IN  \E pass \in { [c \in F |-> RenderBubbles(bubbleData, c)] @@ << >> } :
        /\ dom' = [c \in Containers |->
                     IF c \in F THEN pass[c].dom ELSE dom[c]]
        /\ renderedIds' = [c \in Containers |->
                     IF c \in F THEN pass[c].known ELSE renderedIds[c]]
        /\ lastData' = [c \in Containers |->
                     IF c \in Cached(F) THEN << bubbleData >> ELSE lastData[c]]
        /\ measured' = [c \in Containers |->
                     IF c \in F THEN csize[c] ELSE measured[c]]
        /\ last' = [kind |-> kind, on |-> on, cancelled |-> FALSE,
                    after |-> IF kind = "frame" THEN last.kind ELSE "",
                    calls |-> fields,
                    passes |-> [k \in 1..Len(SelectSeq(fields, LAMBDA c : c \in F)) |->
                                 pass[SelectSeq(fields, LAMBDA c : c \in F)[k]].did]]

\* the snapshots that can follow the collection's present documents: documents
\* may have been deleted, and a document new to the snapshot is later than
\* every document already there (addDoc(myCol, { ts: serverTimestamp() }))
NextSnapshotsOf(col) ==
  { q \in SnapshotsOf(col) :
      \A i \in 1..Len(q) :
        (\A j \in 1..Len(docs[col]) : docs[col][j] # q[i]) =>
          \A j \in 1..Len(docs[col]) : TsHour(docs[col][j]) < TsHour(q[i]) }

\* onSnapshot callback of a collection: the collection now holds `ids`
OnSnapshot(col, ids) ==
  /\ col \in subscribed
  /\ docs' = [docs EXCEPT ![col] = ids]
  /\ RenderAll(SnapshotBubbles(ids), FieldsOf(col), "snapshot", col)
  /\ UNCHANGED << exists, csize, rafId, queued, layoutVars, pageVars >>

\* onSnapshot(query(theirCol, orderBy('ts', 'asc')), ...)
TheirSnapshot == \E ids \in NextSnapshotsOf("their") : OnSnapshot("their", ids)

\* onSnapshot(query(myCol, orderBy('ts', 'asc')), ...)
MySnapshot == \E ids \in NextSnapshotsOf("my") : OnSnapshot("my", ids)

\* most frame callbacks of one container the model lets the browser queue
MaxQueued == 2

\* variant: the pending frame callback is not cancelled
CancelNothing(q, named) == q

\* if (rafId) cancelAnimationFrame(rafId): the number of queued frame
\* callbacks that is left of q, `named` telling whether rafId names one of them
Cancel(q, named) == IF named THEN q - 1 ELSE q

\* the ResizeObserver callback of observeField(c), which observes only a
\* container that exists (if (!el || ...) return): the container has a new size
\* (or the observer reports its size for the first time); the pending frame
\* callback is cancelled and one is requested
Resize ==
  \E c \in observed : \E sz \in SizesOf(c) :
    /\ Cancel(queued[c], rafId[c]) < MaxQueued
    /\ csize' = [csize EXCEPT ![c] = sz]
    /\ queued' = [queued EXCEPT ![c] = Cancel(queued[c], rafId[c]) + 1]
    /\ rafId' = [rafId EXCEPT ![c] = TRUE]
    /\ last' = [kind |-> "resize", on |-> c, cancelled |-> rafId[c],
                after |-> "", calls |-> << >>, passes |-> << >>]
    /\ UNCHANGED << docs, exists, dom, renderedIds, lastData, measured, layoutVars, pageVars >>

\* variant: the frame callback tests only that a snapshot is cached
HasDataOrEmpty(c) == lastData[c] # << >>

\* const data = lastData[containerId]; if (data && data.length > 0)
HasData(c) == lastData[c] # << >> /\ Len(lastData[c][1]) > 0

\* the requestAnimationFrame callback of observeField(c): the browser runs
\* the callback queued first, and rafId goes on naming the one requested last
Frame ==
  \E c \in exists :
    /\ queued[c] > 0
    /\ queued' = [queued EXCEPT ![c] = queued[c] - 1]
    /\ rafId' = [rafId EXCEPT ![c] = queued[c] > 1]
    /\ IF HasData(c)
       THEN RenderAll(lastData[c][1], << c >>, "frame", c)
       ELSE /\ last' = [kind |-> "frame", on |-> c, cancelled |-> FALSE,
                       after |-> last.kind, calls |-> << >>,
                       passes |-> << >>]
            /\ UNCHANGED << dom, renderedIds, lastData, measured >>
    /\ UNCHANGED << docs, exists, csize, layoutVars, pageVars >>

Init ==
  /\ PageLoaded
  /\ NothingShown
  /\ exists \in SUBSET Containers
  /\ csize \in [Containers -> Sizes \cup { NotMeasured }]
  /\ \A c \in Containers :
       IF c \in exists THEN csize[c] \in SizesOf(c) ELSE csize[c] = NotMeasured
  /\ LayoutIdle
  /\ lcanvas = << 900, 680, -68 >>
  /\ AppRunning

Next == TheirSnapshot \/ MySnapshot \/ Resize \/ Frame

Spec == Init /\ [][Next]_vars

(* ---------------------------------------------------------------------- *)
(* Properties of the renderer                                              *)
(* ---------------------------------------------------------------------- *)
\* number of elements of `anchors` carrying id
ElementCount(anchors, id) ==
  Cardinality({ k \in 1..Len(anchors) : anchors[k].id = id })

\* number of times id occurs in a sequence of ids
Occurrences(q, id) == Cardinality({ k \in 1..Len(q) : q[k] = id })

\* left, top and size of the element carrying id
PlaceOf(anchors, id) ==
  LET e == anchors[QuerySelector(anchors, id)]
  IN  << e.left, e.top, e.size >>

\* the containers the step's handler has run renderBubbles on
Rendered == { last.passes[k].c : k \in DOMAIN last.passes }

\* the record of the handler's pass on container c
PassOn(c) == last.passes[CHOOSE k \in DOMAIN last.passes : last.passes[k].c = c]

\* the snapshot the latest pass on container c rendered
DataOf(c) == lastData[c][1]

\* C6 as stated: between two consecutive snapshot passes on a container whose
\* measured size did not change, every id present in both snapshots keeps its
\* element's position and size, whatever changed between the snapshots
C6_CommonIdsKeepPlace ==
  [][ last'.kind = "snapshot" =>
        \A c \in Rendered' :
          measured[c] = csize[c] =>
            \A id \in IdsIn(DataOf(c)) \cap IdsIn(DataOf(c)') :
              PlaceOf(dom'[c], id) = PlaceOf(dom[c], id) ]_vars

\* C6 amended: between two consecutive snapshot passes on a container whose
\* measured size did not change, every id present in both snapshots at the
\* same index keeps its element's position and size
C6_SameIndexKeepsPlace ==
  [][ last'.kind = "snapshot" =>
        \A c \in Rendered' :
          measured[c] = csize[c] =>
            \A id \in IdsIn(DataOf(c)) \cap IdsIn(DataOf(c)') :
              IndexOf(DataOf(c), id) = IndexOf(DataOf(c)', id) =>
                PlaceOf(dom'[c], id) = PlaceOf(dom[c], id) ]_vars

\* a snapshot pass at unchanged size has removed an id, and an id that stays at
\* its index has gone through the update branch without moving
C6_Witness ==
  /\ last.kind = "snapshot"
  /\ \E c \in Rendered :
       /\ PassOn(c).sameSize
       /\ ~PassOn(c).sameData
       /\ PassOn(c).removed # << >>
       /\ \E id \in IdsIn(DataOf(c)) :
            /\ Occurrences(PassOn(c).created, id) = 0
            /\ id \notin PassOn(c).reindexed
            /\ id \notin PassOn(c).moved

\* C8: a pass that renders the snapshot of the previous pass on a container of
\* unchanged size creates no element, removes no element, and leaves the
\* known-id set and every element's position, size and gradient as they were
C8_Idempotent ==
  [][ \A c \in Rendered' :
        (lastData'[c] = lastData[c] /\ measured[c] = csize[c]) =>
          /\ PassOn(c)'.created = << >>
          /\ PassOn(c)'.removed = << >>
          /\ renderedIds'[c] = renderedIds[c]
          /\ dom'[c] = dom[c] ]_vars

\* the same snapshot of two bubbles has been rendered a second time at the
\* same size
C8_Witness ==
  \E c \in Rendered :
    /\ PassOn(c).sameData
    /\ PassOn(c).sameSize
    /\ Len(DataOf(c)) >= 2
    /\ Len(dom[c]) >= 2

\* C9: a pass removes exactly the one element of every rendered id that its
\* snapshot lacks and deletes the id from the known-id set, removes no element
\* whose id is in the snapshot, and an empty snapshot leaves no element and an
\* empty known-id set
C9_RemovalCorrect ==
  [][ \A c \in Rendered' :
        /\ \A id \in renderedIds[c] \ IdsIn(DataOf(c)') :
             /\ ElementCount(dom[c], id) = 1
             /\ Occurrences(PassOn(c)'.removed, id) = 1
             /\ ElementCount(dom'[c], id) = 0
             /\ id \notin renderedIds'[c]
        /\ \A id \in IdsIn(DataOf(c)') :
             /\ Occurrences(PassOn(c)'.removed, id) = 0
             /\ ElementCount(dom'[c], id) >= ElementCount(dom[c], id)
        /\ Len(PassOn(c)'.removed) = Len(dom[c]) - Len(SelectSeq(dom[c],
               LAMBDA e : e.id \in IdsIn(DataOf(c)')))
        /\ DataOf(c)' = << >> => (dom'[c] = << >> /\ renderedIds'[c] = { }) ]_vars

\* a pass has removed the element of an id its snapshot lacks while another
\* element stayed
C9_Witness ==
  \E c \in Rendered :
    /\ PassOn(c).removed # << >>
    /\ DataOf(c) # << >>
    /\ \E id \in IdsIn(DataOf(c)) : Occurrences(PassOn(c).created, id) = 0

\* C10: a pass creates exactly one element for every id of its input that has
\* none, neither creates nor removes an element for an id of its input that has
\* one (the element stays where it is in the container and carries the new
\* style), and removes elements only of ids its input lacks; no id ever has two
\* elements
C10_CreatedOncePerId ==
  [][ \A c \in Rendered' :
        /\ \A id \in IdsIn(DataOf(c)') :
             /\ ElementCount(dom'[c], id) = 1
             /\ Occurrences(PassOn(c)'.removed, id) = 0
             /\ Occurrences(PassOn(c)'.created, id)
                  = (IF ElementCount(dom[c], id) = 0 THEN 1 ELSE 0)
        /\ \A k \in 1..Len(PassOn(c)'.removed) :
             PassOn(c)'.removed[k] \notin IdsIn(DataOf(c)')
        /\ IdSeq(dom'[c]) =
             SelectSeq(IdSeq(dom[c]), LAMBDA id : id \in IdsIn(DataOf(c)'))
               \o PassOn(c)'.created ]_vars

\* a pass has updated an element in place (moving it), created one and removed
\* one
C10_Witness ==
  \E c \in Rendered :
    /\ PassOn(c).created # << >>
    /\ PassOn(c).removed # << >>
    /\ PassOn(c).moved # { }

\* C11: a call of renderBubbles for a container that does not exist changes
\* nothing and does not stop the handler: the missing container keeps its
\* (empty) known-id set, its cached snapshot and its elements, and when every
\* container the handler calls renderBubbles for is missing, the known-id sets,
\* the cached snapshots and the elements of all containers are unchanged
C11_MissingContainerNoOp ==
  [][ /\ \A k \in DOMAIN last'.calls :
           last'.calls[k] \notin exists =>
             /\ dom'[last'.calls[k]] = dom[last'.calls[k]]
             /\ renderedIds'[last'.calls[k]] = renderedIds[last'.calls[k]]
             /\ lastData'[last'.calls[k]] = lastData[last'.calls[k]]
      /\ (\A k \in DOMAIN last'.calls : last'.calls[k] \notin exists) =>
           /\ dom' = dom
           /\ renderedIds' = renderedIds
           /\ lastData' = lastData ]_vars

\* a snapshot of two documents was delivered to a handler whose first
\* container is missing and whose second container was rendered, while the
\* other collection's container shows an element
C11_Witness ==
  /\ last.kind = "snapshot"
  /\ Len(docs[last.on]) = 2
  /\ Len(last.calls) = 2
  /\ last.calls[1] \notin exists
  /\ last.calls[2] \in Rendered
  /\ lastData[last.calls[1]] = << >>
  /\ \E c \in Containers \ Rendered : dom[c] # << >>

\* C12: resize notifications are coalesced per container: however many
\* notifications arrive before the frame callback fires, every one after the
\* first cancels the pending callback before it requests one, so a container
\* never has more than one frame callback queued (one resize pass per frame),
\* and rafId names a queued callback exactly when one is queued
C12_ResizeCoalesced ==
  \A c \in Containers :
    /\ queued[c] <= 1
    /\ rafId[c] <=> queued[c] = 1

\* a notification for a container with a pending frame callback has been
\* handled: it cancelled that callback and one callback is queued
C12_Witness ==
  /\ last.kind = "resize"
  /\ last.cancelled
  /\ queued[last.on] = 1
  /\ lastData[last.on] # << >>

\* the collection whose snapshot handler calls renderBubbles for container c
ColOf(c) ==
  CHOOSE col \in Collections : \E k \in DOMAIN FieldsOf(col) : FieldsOf(col)[k] = c

\* C13: when the frame callback of a container fires, it runs no render pass
\* if no snapshot has been delivered for the container yet or the snapshot
\* delivered last is empty; otherwise it runs one pass, on that container, with
\* the snapshot delivered last (the collection's documents as of this moment),
\* measured at the container's present size, and the container then shows
\* exactly the ids of that snapshot in its order
C13_FrameRendersLatest ==
  [][ last'.kind = "frame" =>
        \A c \in { last'.on } :
          IF lastData[c] = << >> \/ docs[ColOf(c)] = << >>
          THEN /\ last'.passes = << >>
               /\ dom' = dom
               /\ renderedIds' = renderedIds
               /\ lastData' = lastData
          ELSE /\ Rendered' = { c }
               /\ lastData[c] = << SnapshotBubbles(docs[ColOf(c)]) >>
               /\ lastData'[c] = lastData[c]
               /\ measured'[c] = csize[c]
               /\ IdSeq(dom'[c]) = docs[ColOf(c)] ]_vars

\* a frame callback has rendered a snapshot that was delivered after the
\* resize notification that requested the callback
C13_Witness ==
  /\ last.kind = "frame"
  /\ last.after = "snapshot"
  /\ last.on \in Rendered
  /\ Len(DataOf(last.on)) = 2

\* C14: a render pass run by a frame callback creates no element and removes
\* none: the container holds the same elements in the same order before and
\* after, its known-id set is the same, no id goes through the create branch
\* (so no entrance animation is played), and an element differs from what it
\* was at most in left, top and size
C14_FramePassKeepsElements ==
  [][ last'.kind = "frame" =>
        \A c \in Rendered' :
          /\ IdSeq(dom'[c]) = IdSeq(dom[c])
          /\ renderedIds'[c] = renderedIds[c]
          /\ PassOn(c)'.created = << >>
          /\ PassOn(c)'.removed = << >>
          /\ \A k \in DOMAIN dom[c] :
               dom'[c][k] = [dom[c][k] EXCEPT !.left = dom'[c][k].left,
                                              !.top = dom'[c][k].top,
                                              !.size = dom'[c][k].size] ]_vars

\* a frame callback has re-rendered a container of two elements after a
\* change of size, and both elements were repositioned
C14_Witness ==
  /\ last.kind = "frame"
  /\ last.on \in Rendered
  /\ ~PassOn(last.on).sameSize
  /\ Len(dom[last.on]) = 2
  /\ PassOn(last.on).moved = IdsIn(dom[last.on])

\* the containers that show a non-empty snapshot
Showing == { c \in Containers : lastData[c] # << >> /\ Len(DataOf(c)) > 0 }

\* twice the centre, in 1/Unit px, of the element of container c that shows
\* the first bubble of the container's snapshot
FirstCentre2(c) ==
  LET e == dom[c][QuerySelector(dom[c], DataOf(c)[1].id)]
  IN  << 2 * e.left + e.size * Unit, 2 * e.top + e.size * Unit >>

\* C15 as stated: in every container that shows a non-empty snapshot the first
\* circle's centre is at W/2 horizontally and strictly above H/2 vertically,
\* W and H being the size the pass measured
C15_FirstAboveCentre ==
  \A c \in Showing :
    /\ FirstCentre2(c)[1] = ContainerW(measured[c]) * Unit
    /\ FirstCentre2(c)[2] < ContainerH(measured[c]) * Unit

\* C15 as the code has it: the first circle's centre is at W/2 horizontally in
\* every container; in the main field theirBubbleField it is above H/2 by a
\* tenth of the height rounded to a pixel, and in the other containers it is
\* at H/2 exactly
C15_FirstAtClusterCentre ==
  \A c \in Showing :
    /\ FirstCentre2(c)[1] = ContainerW(measured[c]) * Unit
    /\ IF c = "theirBubbleField"
       THEN \E bias \in 1..ContainerH(measured[c]) :
              /\ 10 * bias - ContainerH(measured[c]) \in -5..5
              /\ FirstCentre2(c)[2] =
                   (ContainerH(measured[c]) - 2 * bias) * Unit
       ELSE FirstCentre2(c)[2] = ContainerH(measured[c]) * Unit

\* the main field shows two bubbles at 900x680 with the first centred 68px
\* above the middle, and the panel's copy of the field shows them centred
C15_Witness ==
  /\ { "theirBubbleField", "theirBubbleFieldLeft" } \subseteq Showing
  /\ Len(DataOf("theirBubbleField")) = 2
  /\ measured["theirBubbleField"] = << 900, 680 >>
  /\ FirstCentre2("theirBubbleField") = << 900 * Unit, (680 - 136) * Unit >>
  /\ FirstCentre2("theirBubbleFieldLeft")[2] =
       ContainerH(measured["theirBubbleFieldLeft"]) * Unit

\* C16: every circle that layoutBubbles returns lies within the canvas, when
\* every circle of the input is small enough to fit in the canvas by itself:
\* 0 <= x, 0 <= y, x + size <= containerW and y + size <= containerH
C16_WithinCanvas ==
  (\A k \in DOMAIN lbubbles :
      /\ lbubbles[k].size <= lcanvas[1]
      /\ lbubbles[k].size <= lcanvas[2]) =>
    \A k \in DOMAIN lout :
      /\ 0 <= lout[k].x
      /\ 0 <= lout[k].y
      /\ lout[k].x + lout[k].size * Unit <= lcanvas[1] * Unit
      /\ lout[k].y + lout[k].size * Unit <= lcanvas[2] * Unit

\* squared distance, in 1/Unit px, of a returned circle's centre from the
\* cluster centre of the invocation
Dist2(e) ==
  (e.cx - CenterX(lcanvas[1])) * (e.cx - CenterX(lcanvas[1]))
    + (e.cy - CenterY(lcanvas[2], lcanvas[3]))
        * (e.cy - CenterY(lcanvas[2], lcanvas[3]))

\* C17 as stated: for indices i < j, circle i's centre is not further from the
\* cluster centre than circle j's centre
C17_EarlierNearer ==
  \A i \in DOMAIN lout : \A j \in DOMAIN lout :
     i < j => Dist2(lout[i]) <= Dist2(lout[j])

\* C17 as the code has it: the first circle's centre is the cluster centre and
\* every later circle's centre is away from it, by at least the two radii plus
\* the 6px gap when the scan placed the circle (among the later circles the
\* distance is not ordered by index)
C17_FirstCentralRestOutside ==
  \A k \in DOMAIN lout :
     IF k = 1
     THEN Dist2(lout[k]) = 0
     ELSE /\ Dist2(lout[k]) > 0
          /\ ~lfb[k] =>
               Dist2(lout[k]) >=
                 (Radius(lout[1]) + Radius(lout[k]) + GAP * Unit)
                   * (Radius(lout[1]) + Radius(lout[k]) + GAP * Unit)

\* three circles placed by the scan, the third nearer to the cluster centre
\* than the second
C17_Witness ==
  /\ lpc = "done"
  /\ Len(lout) = 3
  /\ NoFallback
  /\ Dist2(lout[3]) < Dist2(lout[2])

\* C19: the renderer's state is kept per container: a handler changes the
\* known-id set, the cached snapshot and the elements of no container other
\* than those it runs a render pass on, and a container that has had no pass
\* yet has an empty known-id set and no element
C19_ScopedPerContainer ==
  [][ /\ \A c \in Containers \ Rendered' :
           /\ dom'[c] = dom[c]
           /\ renderedIds'[c] = renderedIds[c]
           /\ lastData'[c] = lastData[c]
      /\ \A c \in Containers :
           /\ lastData[c] = << >> => renderedIds[c] = { } /\ dom[c] = << >>
           /\ lastData'[c] = << >> => renderedIds'[c] = { } /\ dom'[c] = << >>
    ]_vars

\* a snapshot of the user's own collection has put an element into
\* myBubbleField while the main field shows two elements and the panel's copy
\* of the main field has had no pass
C19_Witness ==
  /\ last.kind = "snapshot"
  /\ Rendered = { "myBubbleField" }
  /\ PassOn("myBubbleField").created # << >>
  /\ Len(dom["theirBubbleField"]) = 2
  /\ lastData["theirBubbleFieldLeft"] = << >>

(* ---------------------------------------------------------------------- *)
(* layoutBubbles called as renderBubbles calls it for the main field       *)
(* ---------------------------------------------------------------------- *)
\* most documents of a snapshot handed to the layout
MaxPalette == 13

\* document ids of a collection, by ts ascending
ThoughtIds ==
  << "t01", "t02", "t03", "t04", "t05", "t06", "t07", "t08", "t09", "t10",
     "t11", "t12", "t13", "t14", "t15", "t16" >>

\* <<containerW, containerH, cyOffset>> of renderBubbles for the main field at
\* the sizes a container is measured at
PaletteCanvases ==
  { << ContainerW(sz), ContainerH(sz),
       CyOffset("theirBubbleField", ContainerH(sz)) >> : sz \in Sizes }

PInit ==
  /\ LayoutIdle
  /\ lcanvas \in PaletteCanvases
  /\ PageLoaded
  /\ NothingShown
  /\ exists = Containers
  /\ csize = [c \in Containers |-> << lcanvas[1], lcanvas[2] >>]
  /\ AppRunning

\* const laid = layoutBubbles(scaledData, containerW, containerH, cyOffset)
\* for the snapshot of the first n documents
PCall ==
  /\ lpc = "idle"
  /\ \E n \in 1..MaxPalette :
       Enter(ScaledData(SnapshotBubbles(SubSeq(ThoughtIds, 1, n)),
                        lcanvas[1], lcanvas[2]))
  /\ UNCHANGED << lcanvas, lprev, renderVars, pageVars >>

PNext == PCall \/ LStep \/ LReturn

PaletteSpec == PInit /\ [][PNext]_vars

\* C18: when the snapshot of 12 documents, sized from the palette for the
\* canvas, is laid out on the 900x680 canvas or on the 450x340 canvas, no
\* circle takes the fallback branch, every two circles returned are clear of
\* each other by the 6px gap, and all 12 are returned
C18_PaletteOfTwelveClear ==
  Len(lbubbles) = 12 =>
    /\ NoFallback
    /\ AllClear(lout)
    /\ lpc = "done" => Len(lout) = 12

\* the 12 circles have been laid out on the half-size canvas at the scaled
\* diameters, the last of them beyond the reach of a scan of 80px
C18_Witness ==
  /\ lpc = "done"
  /\ Len(lout) = 12
  /\ lcanvas = << 450, 340, -34 >>
  /\ lout[4].size = 53
  /\ Dist2(lout[12]) > (80 * Unit) * (80 * Unit)

\* C20: the diameter of the circle laid out at index i (from 0) is
\* BASE_SIZES[i mod 12] * min(containerW, containerH) / 832 rounded to the
\* nearest integer, halves upwards; so the circles at i and i + 12 have equal
\* diameters, whatever size field the snapshot's records carry
C20_DiameterByIndex ==
  \A k \in DOMAIN lout :
    /\ 2 * DesignHeight * lout[k].size
         <= 2 * BASE_SIZES[((k - 1) % 12) + 1] * Min(lcanvas[1], lcanvas[2])
              + DesignHeight
    /\ 2 * BASE_SIZES[((k - 1) % 12) + 1] * Min(lcanvas[1], lcanvas[2])
              + DesignHeight
         < 2 * DesignHeight * (lout[k].size + 1)
    /\ k > 12 => lout[k].size = lout[k - 12].size

\* 13 circles have been laid out on the 900x680 canvas: the first and the
\* thirteenth have diameter 75, which is not the 92 that the snapshot's
\* records carry for them
C20_Witness ==
  /\ lpc = "done"
  /\ Len(lout) = 13
  /\ lcanvas = << 900, 680, -68 >>
  /\ lout[1].size = 75
  /\ lout[13].size = 75
  /\ SnapshotBubbles(SubSeq(ThoughtIds, 1, 13))[13].size = 92

\* C21: every entry that layoutBubbles returns, the first and the fallback
\* placements included, has x = cx - size/2 and y = cy - size/2, and the
\* circle pushed to `placed` for the overlap tests of later circles has that
\* same centre (cx, cy) and radius size/2
C21_CornerAndCentreAgree ==
  \A k \in DOMAIN lout :
    /\ 2 * lout[k].x = 2 * lout[k].cx - lout[k].size * Unit
    /\ 2 * lout[k].y = 2 * lout[k].cy - lout[k].size * Unit
    /\ k <= Len(placed)
    /\ placed[k].cx = lout[k].cx
    /\ placed[k].cy = lout[k].cy
    /\ 2 * placed[k].r = lout[k].size * Unit

\* an invocation has returned three circles, one placed by the scan and one
\* by the fallback branch
C21_Witness ==
  /\ lpc = "done"
  /\ Len(lout) = 3
  /\ \E j \in 2..3 : lfb[j]
  /\ \E j \in 2..3 : ~lfb[j]

(* ---------------------------------------------------------------------- *)
(* getPeriod and bubbleGradientFromTimestamp over the hours of the day     *)
(* ---------------------------------------------------------------------- *)
PeriodInit ==
  /\ LayoutIdle
  /\ lcanvas = << 900, 680, -68 >>
  /\ PageLoaded
  /\ exists = Containers
  /\ csize = [c \in Containers |-> << 450, 340 >>]
  /\ clock \in 0..23
  /\ shown = NotShown
  /\ AppRunning

\* an hour passes
Tick ==
  /\ clock' = (clock + 1) % 24
  /\ UNCHANGED << shown, uiVars, layoutVars, renderVars >>

\* bubbleGradientFromTimestamp(ts) at the present hour
Paint ==
  /\ shown' = [hour |-> clock, period |-> GetPeriod(clock),
               gradient |-> BubbleGradientFromTimestamp(clock)]
  /\ UNCHANGED << clock, uiVars, layoutVars, renderVars >>

PeriodNext == Tick \/ Paint

PeriodSpec == PeriodInit /\ [][PeriodNext]_vars

\* C22: for every hour 0..23 getPeriod returns the period of the table 3-8
\* early-morning, 8-11 morning, 11-14 midday, 14-18 afternoon, 18-20 evening,
\* 20-23 dusk, and night for 23, 0, 1 and 2; the period has an entry in
\* PERIOD_META, and the gradient returned is that entry's, never undefined
C22_PeriodByHour ==
  shown # NotShown =>
    /\ shown.hour \in 0..23
    /\ shown.hour \in 3..7 <=> shown.period = "early-morning"
    /\ shown.hour \in 8..10 <=> shown.period = "morning"
    /\ shown.hour \in 11..13 <=> shown.period = "midday"
    /\ shown.hour \in 14..17 <=> shown.period = "afternoon"
    /\ shown.hour \in 18..19 <=> shown.period = "evening"
    /\ shown.hour \in 20..22 <=> shown.period = "dusk"
    /\ shown.hour \in { 23, 0, 1, 2 } <=> shown.period = "night"
    /\ shown.period \in DOMAIN PERIOD_META
    /\ shown.gradient = PERIOD_META[shown.period].gradient
    /\ shown.gradient # "TypeError"

\* the gradient of the night has been computed at 2 o'clock, and the hour
\* has since become 3
C22_Witness ==
  /\ shown.hour = 2
  /\ shown.period = "night"
  /\ shown.gradient = "#FFA071, #FFF788"
  /\ clock = 3

\* the candidate of ring index j and angle index a in the scan for the circle
\* returned last, and the circles placed before that circle
LastCandidate(j, a) ==
  LET ring == Radius(lout[Len(lout)]) + GAP * Unit + j * RingStep * Unit
  IN  << CandX(CenterX(lcanvas[1]), ring, a, AngleSteps(ring)),
         CandY(CenterY(lcanvas[2], lcanvas[3]), ring, a, AngleSteps(ring)) >>

PlacedBeforeLast == SubSeq(placed, 1, Len(lout) - 1)

\* the candidate clears every circle placed before the last one
LastCandidateClear(j, a) ==
  \A p \in 1..Len(PlacedBeforeLast) :
     ~TooClose(LastCandidate(j, a)[1], LastCandidate(j, a)[2],
               Radius(lout[Len(lout)]), PlacedBeforeLast[p])

\* C23: a circle after the first that the fallback did not place has its
\* centre at the first candidate, in the order of rings of radius
\* size/2 + 6, size/2 + 8, ... and on a ring of angle indices 0, 1, ..., that
\* clears every circle placed before it by the gap: the candidate clears them and
\* no candidate earlier in that order does (stated of the circle returned
\* last, which every circle is in the state after its callback)
C23_FirstFit ==
  (Len(lout) > 1 /\ ~lfb[Len(lout)]) =>
    \E j \in 0..((RingLimit * Unit) \div (RingStep * Unit)) :
      \E a \in 0..(AngleSteps(Radius(lout[Len(lout)]) + GAP * Unit
                                + j * RingStep * Unit) - 1) :
        /\ LastCandidate(j, a) = << lout[Len(lout)].cx, lout[Len(lout)].cy >>
        /\ LastCandidateClear(j, a)
        /\ \A b \in 0..(a - 1) : ~LastCandidateClear(j, b)
        /\ \A i \in 0..(j - 1) :
             \A b \in 0..(AngleSteps(Radius(lout[Len(lout)]) + GAP * Unit
                                      + i * RingStep * Unit) - 1) :
               ~LastCandidateClear(i, b)

\* the twelfth circle of the palette has been placed by the scan on the
\* 900x680 canvas, more than 150px from the cluster centre
C23_Witness ==
  /\ Len(lout) = 12
  /\ ~lfb[12]
  /\ lcanvas = << 900, 680, -68 >>
  /\ Dist2(lout[12]) > (150 * Unit) * (150 * Unit)

GOLDEN_ANGLE == 239996
TwoPiFine == 628319
\* (step - 1) * 0.15 and (step - 1) * 4
StepAngle == 15000
StepRadius == 4
SpiralSteps == 300
SpiralGap == 4

RECURSIVE SqrtSearch(_, _, _)
\* the largest m in lo..hi with m * m <= n
SqrtSearch(n, lo, hi) ==
  IF lo = hi THEN lo
  ELSE IF ((lo + hi + 1) \div 2) * ((lo + hi + 1) \div 2) <= n
       THEN SqrtSearch(n, (lo + hi + 1) \div 2, hi)
       ELSE SqrtSearch(n, lo, (lo + hi + 1) \div 2 - 1)

\* Math.sqrt(i), times TrigScale
SqrtT(i) == SqrtSearch(i * TrigScale * TrigScale, 0, i * TrigScale)

\* Math.sqrt(i) * b.size * k for k = hundredths / 100, in 1/Unit px
SpiralBase(i, size, hundredths) ==
  RoundDiv(RoundDiv(SqrtT(i) * size, TrigScale \div Unit) * hundredths, 100)

\* the point at `radius` from (cx, cy) in the direction `fine` / 100000 radian
SpiralPoint(cx, cy, radius, fine) ==
  [px |-> cx + RoundDiv(Cos((fine % TwoPiFine) \div 10) * radius, TrigScale),
   py |-> cy + RoundDiv(Sin((fine % TwoPiFine) \div 10) * radius, TrigScale)]

\* the candidate of a step: radius = Math.sqrt(i) * b.size * 0.62 + (step - 1) * 4,
\* angle = i * GOLDEN_ANGLE + (step - 1) * 0.15
SpiralCandidate(i, size, step, cx, cy) ==
  SpiralPoint(cx, cy,
              SpiralBase(i, size, 62) + (step - 1) * StepRadius * Unit,
              i * GOLDEN_ANGLE + (step - 1) * StepAngle)

\* the fallback: radius = Math.sqrt(i) * b.size * 0.8, angle = i * GOLDEN_ANGLE
SpiralFallback(i, size, cx, cy) ==
  SpiralPoint(cx, cy, SpiralBase(i, size, 80), i * GOLDEN_ANGLE)

\* placed.some(p => Math.sqrt(dx * dx + dy * dy) < r + p.size / 2 + 4)
SpiralOverlaps(c, r, sofar) ==
  \E k \in 1..Len(sofar) :
     (c.px - sofar[k].cx) * (c.px - sofar[k].cx)
       + (c.py - sofar[k].cy) * (c.py - sofar[k].cy)
     < (r + sofar[k].r + SpiralGap * Unit) * (r + sofar[k].r + SpiralGap * Unit)

\* the steps of the for loop whose candidate overlaps nothing
FreeSteps(i, size, sofar, cx, cy) ==
  { step \in 1..SpiralSteps :
      ~SpiralOverlaps(SpiralCandidate(i, size, step, cx, cy),
                      (size * Unit) \div 2, sofar) }

\* the body of the forEach callback for the bubble of index i: the first bubble
\* at the centre, the others at the candidate of the first free step, or at
\* the fallback when the 300 steps are used up (`found` still false)
SpiralPlaceOne(i, size, sofar, cx, cy) ==
  LET r == (size * Unit) \div 2
      Entry(c, fb) ==
        [placed |-> Append(sofar, [cx |-> c.px, cy |-> c.py, r |-> r]),
         at |-> [x |-> c.px - r, y |-> c.py - r, cx |-> c.px, cy |-> c.py],
         fallback |-> fb]
      Pick(free) ==
        IF free = {}
        THEN Entry(SpiralFallback(i, size, cx, cy), TRUE)
        ELSE Entry(SpiralCandidate(i, size,
                                   CHOOSE s \in free : \A t \in free : s <= t,
                                   cx, cy), FALSE)
  IN  IF i = 0 THEN Entry([px |-> cx, py |-> cy], FALSE)
      ELSE Pick(FreeSteps(i, size, sofar, cx, cy))

\* circles handed to the spiral: two diameters of SIZES and one so large that
\* no candidate of a later small circle leaves it
SpiralCircles ==
  { [id |-> "a", size |-> 92], [id |-> "b", size |-> 112],
    [id |-> "c", size |-> 2500] }

\* input sequences of at most MaxLen circles, at most one of them large
SpiralInputs ==
  { q \in UNION { [1..n -> SpiralCircles] : n \in 0..MaxLen } :
      \A i \in 1..Len(q) : \A j \in 1..Len(q) :
         (i < j /\ q[i].size > 1000) => q[j].size < 1000 }

\* <<containerW, containerH, cyOffset>>: const cy = containerH / 2 - 20
SpiralCanvases == { << 900, 680, -20 >>, << 450, 340, -20 >> }

SpiralInit ==
  /\ LayoutIdle
  /\ lcanvas \in SpiralCanvases
  /\ PageLoaded
  /\ NothingShown
  /\ exists = Containers
  /\ csize = [c \in Containers |-> << 450, 340 >>]
  /\ AppRunning

\* an invocation of the spiral layoutBubbles, with any input
SCall ==
  /\ lpc = "idle"
  /\ \E bubbles \in SpiralInputs : Enter(bubbles)
  /\ UNCHANGED << lcanvas, lprev, renderVars, pageVars >>

\* one callback of bubbles.forEach
SStep ==
  /\ lpc = "run"
  /\ Len(lout) < Len(lbubbles)
  /\ \E s \in { SpiralPlaceOne(Len(lout), lbubbles[Len(lout) + 1].size, placed,
                               CenterX(lcanvas[1]),
                               CenterY(lcanvas[2], lcanvas[3])) } :
         /\ placed' = s.placed
         /\ lout' = Append(lout, Spread(lbubbles[Len(lout) + 1], s.at))
         /\ lfb' = Append(lfb, s.fallback)
  /\ UNCHANGED << lbubbles, lcanvas, lpc, lprev, renderVars, pageVars >>

SpiralNext == SCall \/ SStep \/ LReturn

SpiralSpec == SpiralInit /\ [][SpiralNext]_vars

\* the discs of two entries do not intersect
Apart(A, B) ==
  (A.cx - B.cx) * (A.cx - B.cx) + (A.cy - B.cy) * (A.cy - B.cy)
    >= (Radius(A) + Radius(B)) * (Radius(A) + Radius(B))

\* C25: a circle of the golden-angle spiral whose 300 candidates all overlap is
\* placed at a fallback position where it overlaps no circle placed before it
C25_FallbackOverlapsNothing ==
  \A k \in 1..Len(lout) :
     lfb[k] => \A j \in 1..(k - 1) : Apart(lout[k], lout[j])

(* ---------------------------------------------------------------------- *)
(* renderBubbles' scaling in a container measured a few pixels wide        *)
(* ---------------------------------------------------------------------- *)
\* widest container of the narrow measurements
MaxNarrow == 12

\* <<containerW, containerH, cyOffset>> of renderBubbles for a side panel
\* measured w pixels wide and 340 high
NarrowCanvases ==
  { << ContainerW(<< w, 340 >>), ContainerH(<< w, 340 >>),
       CyOffset("theirBubbleFieldLeft", ContainerH(<< w, 340 >>)) >> :
      w \in 1..MaxNarrow }

NarrowInit ==
  /\ LayoutIdle
  /\ lcanvas \in NarrowCanvases
  /\ PageLoaded
  /\ NothingShown
  /\ exists = Containers
  /\ csize = [c \in Containers |-> << lcanvas[1], lcanvas[2] >>]
  /\ AppRunning

\* const laid = layoutBubbles(scaledData, containerW, containerH, cyOffset)
\* for a snapshot of up to MaxDocs + 1 documents
NarrowCall ==
  /\ lpc = "idle"
  /\ \E n \in 1..(MaxDocs + 1) :
       Enter(ScaledData(SnapshotBubbles(SubSeq(ThoughtIds, 1, n)),
                        lcanvas[1], lcanvas[2]))
  /\ UNCHANGED << lcanvas, lprev, renderVars, pageVars >>

NarrowNext == NarrowCall \/ LStep \/ LReturn

NarrowSpec == NarrowInit /\ [][NarrowNext]_vars

\* C26: every circle that renderBubbles hands to layoutBubbles, for a container
\* measured with positive width and height, has a diameter greater than 0
C26_DiameterPositive ==
  (lcanvas[1] > 0 /\ lcanvas[2] > 0) =>
    \A k \in 1..Len(lbubbles) : lbubbles[k].size > 0

(* ---------------------------------------------------------------------- *)
(* renderBubbles given any list of bubbles, repeated ids included          *)
(* ---------------------------------------------------------------------- *)
\* lists of at most MaxDocs document ids of a collection, in any order and
\* with repetitions
AnyIds(col) == UNION { [1..n -> IdsOf(col)] : n \in 0..MaxDocs }

\* the body of the snapshot callback of theirCol run on such a list
AnySnapshot == \E ids \in AnyIds("their") : OnSnapshot("their", ids)

AnyNext == AnySnapshot \/ Resize \/ Frame

\* a page with the main field only
AnyInit ==
  /\ PageLoaded
  /\ NothingShown
  /\ exists = { "theirBubbleField" }
  /\ csize = [c \in Containers |->
               IF c \in exists THEN << 450, 340 >> ELSE NotMeasured]
  /\ LayoutIdle
  /\ lcanvas = << 900, 680, -68 >>
  /\ AppRunning

AnySpec == AnyInit /\ [][AnyNext]_vars

\* C27: once a pass has run on a container, the container's known-id set is
\* the set of data-id values of its elements, which is the set of ids of the
\* snapshot rendered last, and no two of its elements carry the same id; a
\* snapshot that repeats an id makes no difference
C27_KnownIdsAreElements ==
  \A c \in Containers :
    lastData[c] # << >> =>
      /\ renderedIds[c] = IdsIn(dom[c])
      /\ IdsIn(dom[c]) = IdsIn(DataOf(c))
      /\ \A id \in IdsIn(dom[c]) : ElementCount(dom[c], id) = 1

\* a frame callback has rendered a list that names one id twice, for which the
\* container has one element, after a snapshot pass that removed an element
C27_Witness ==
  /\ last.kind = "frame"
  /\ last.after = "snapshot"
  /\ \E c \in Rendered :
       /\ Len(DataOf(c)) = 2
       /\ DataOf(c)[1].id = DataOf(c)[2].id
       /\ Len(dom[c]) = 1
       /\ renderedIds[c] = { DataOf(c)[1].id }

(* ---------------------------------------------------------------------- *)
(* initApp, the side panel and the record button                           *)
(* ---------------------------------------------------------------------- *)
\* most callbacks of the panel requested and not yet run, per kind
MaxPending == 2

\* what the handlers of the page leave alone
notUi == << clock, shown, layoutVars, renderVars >>

\* the page is loaded, with the field of the user's own thoughts, and initApp
\* is about to be called, with either key
PageInit ==
  /\ PageLoaded
  /\ NothingShown
  /\ exists = { "myBubbleField" }
  /\ csize = [c \in Containers |->
               IF c \in exists THEN << 450, 340 >> ELSE NotMeasured]
  /\ LayoutIdle
  /\ lcanvas = << 900, 680, -68 >>
  /\ keyOk \in BOOLEAN
  /\ ipc = "load"
  /\ hiddenEls = { "app", "accessDenied" }
  /\ subscribed = { }
  /\ observed = { }
  /\ wired = FALSE
  /\ Markup

\* initApp past the guard: #app revealed, observeField for the three fields
\* (which observes the existing ones), the two onSnapshot listeners, the click
\* listeners
Register ==
  /\ hiddenEls' = hiddenEls \ { "app" }
  /\ observed' = exists
  /\ subscribed' = Collections
  /\ wired' = TRUE
  /\ ipc' = "running"

\* variant: the guard lacks its return
InitAppNoReturn ==
  /\ ipc = "load"
  /\ IF keyOk
     THEN Register
     ELSE /\ hiddenEls' = hiddenEls \ { "app", "accessDenied" }
          /\ observed' = exists
          /\ subscribed' = Collections
          /\ wired' = TRUE
          /\ ipc' = "denied"
  /\ UNCHANGED << keyOk, overlay, pending, lastPanel, btn, write, notUi >>

\* export function initApp({ me, them, myKey, db })
InitApp ==
  /\ ipc = "load"
  /\ IF keyOk
     THEN Register
     ELSE /\ hiddenEls' = hiddenEls \ { "accessDenied" }
          /\ ipc' = "denied"
          /\ UNCHANGED << observed, subscribed, wired >>
  /\ UNCHANGED << keyOk, overlay, pending, lastPanel, btn, write, notUi >>

\* openPanel, the click listener of #openPanelBtn
OpenClick ==
  /\ wired
  /\ pending.outer + pending.inner < MaxPending
  /\ overlay' = overlay \ { "hidden" }
  /\ pending' = [pending EXCEPT !.outer = @ + 1]
  /\ lastPanel' = "open"
  /\ UNCHANGED << keyOk, ipc, hiddenEls, subscribed, observed, wired, btn, write, notUi >>

\* requestAnimationFrame(() => { requestAnimationFrame(...) }): the outer callback
OuterFrame ==
  /\ pending.outer > 0
  /\ pending' = [pending EXCEPT !.outer = @ - 1, !.inner = @ + 1]
  /\ UNCHANGED << keyOk, ipc, hiddenEls, subscribed, observed, wired, overlay,
                  lastPanel, btn, write, notUi >>

\* () => overlay.classList.add('visible'): the inner callback
InnerFrame ==
  /\ pending.inner > 0
  /\ overlay' = overlay \cup { "visible" }
  /\ pending' = [pending EXCEPT !.inner = @ - 1]
  /\ UNCHANGED << keyOk, ipc, hiddenEls, subscribed, observed, wired, lastPanel,
                  btn, write, notUi >>

\* closePanel, the click listener of #closePanelBtn and of the overlay itself,
\* which can be clicked only while the overlay is laid out (no 'hidden')
CloseClick ==
  /\ wired
  /\ "hidden" \notin overlay
  /\ pending.close < MaxPending
  /\ overlay' = overlay \ { "visible" }
  /\ pending' = [pending EXCEPT !.close = @ + 1]
  /\ lastPanel' = "close"
  /\ UNCHANGED << keyOk, ipc, hiddenEls, subscribed, observed, wired, btn, write, notUi >>

\* setTimeout(() => overlay.classList.add('hidden'), 460)
CloseTimer ==
  /\ pending.close > 0
  /\ overlay' = overlay \cup { "hidden" }
  /\ pending' = [pending EXCEPT !.close = @ - 1]
  /\ UNCHANGED << keyOk, ipc, hiddenEls, subscribed, observed, wired, lastPanel,
                  btn, write, notUi >>

\* recordThought up to its await, the click listener of #recordBtn; a disabled
\* button dispatches no click
RecordClick ==
  /\ wired
  /\ ~btn.disabled
  /\ btn' = [disabled |-> TRUE, label |-> "sent"]
  /\ write' = "pending"
  /\ UNCHANGED << keyOk, ipc, hiddenEls, subscribed, observed, wired, overlay,
                  pending, lastPanel, notUi >>

\* variant: the setTimeout stands inside the try block, after the await
WriteFailsNoTimer ==
  /\ write = "pending"
  /\ write' = "failed"
  /\ UNCHANGED << keyOk, ipc, hiddenEls, subscribed, observed, wired, overlay,
                  pending, lastPanel, btn, notUi >>

\* recordThought after the await when addDoc rejects: catch(e) {
\* console.error(e) }, then the setTimeout
WriteFails ==
  /\ write = "pending"
  /\ write' = "failed"
  /\ pending' = [pending EXCEPT !.enable = @ + 1]
  /\ UNCHANGED << keyOk, ipc, hiddenEls, subscribed, observed, wired, overlay,
                  lastPanel, btn, notUi >>

\* recordThought after the await when addDoc resolves: the setTimeout (the
\* new document reaches the page as a snapshot of myCol)
WriteSettles ==
  /\ write = "pending"
  /\ write' = "ok"
  /\ pending' = [pending EXCEPT !.enable = @ + 1]
  /\ UNCHANGED << keyOk, ipc, hiddenEls, subscribed, observed, wired, overlay,
                  lastPanel, btn, notUi >>

\* setTimeout(() => { btn.disabled = false; btn.innerHTML = ... }, 2000)
EnableTimer ==
  /\ pending.enable > 0
  /\ btn' = [disabled |-> FALSE, label |-> "plus"]
  /\ pending' = [pending EXCEPT !.enable = @ - 1]
  /\ UNCHANGED << keyOk, ipc, hiddenEls, subscribed, observed, wired, overlay,
                  lastPanel, write, notUi >>

\* the handlers of the page; of the two snapshot listeners the one of myCol,
\* which renders into the field this page has
PageNext ==
  \/ InitApp
  \/ OpenClick \/ OuterFrame \/ InnerFrame \/ CloseClick \/ CloseTimer
  \/ RecordClick \/ WriteFails \/ WriteSettles \/ EnableTimer
  \/ MySnapshot \/ Resize \/ Frame

PageSpec == PageInit /\ [][PageNext]_vars

\* C28: when the key of the URL is not myKey, initApp reveals #accessDenied and
\* nothing else: from then on #app keeps the class 'hidden', no snapshot
\* listener, resize observer or click listener is registered, no write is
\* issued and no render pass has run
C28_WrongKeyDoesNothing ==
  (~keyOk /\ ipc # "load") =>
    /\ ipc = "denied"
    /\ hiddenEls = { "app" }
    /\ subscribed = { }
    /\ observed = { }
    /\ ~wired
    /\ write = "none" /\ btn = [disabled |-> FALSE, label |-> "plus"]
    /\ overlay = { "hidden" } /\ pending = NonePending
    /\ last = NoHandler
    /\ docs = [col \in Collections |-> << >>]
    /\ \A c \in Containers :
         dom[c] = << >> /\ renderedIds[c] = { } /\ lastData[c] = << >>

\* initApp has returned at the guard, #accessDenied revealed
C28_Witness ==
  /\ ~keyOk
  /\ ipc = "denied"
  /\ "accessDenied" \notin hiddenEls

\* C29: when the panel handler that ran last is openPanel and no timer or frame
\* callback of the panel is pending, the overlay carries 'visible' and does not
\* carry 'hidden'
C29_OpenEndsVisible ==
  (/\ lastPanel = "open"
   /\ pending.close = 0 /\ pending.outer = 0 /\ pending.inner = 0)
    => ("visible" \in overlay /\ "hidden" \notin overlay)

\* a timer that is set fires: the 2000 ms timeout of recordThought runs its
\* callback once the event loop is idle
PageLive == PageInit /\ [][PageNext]_vars /\ WF_vars(EnableTimer)

\* C30: while the write of a click is pending the button is disabled; once the
\* write has settled, resolved or rejected, the button is eventually enabled
\* again; and the step in which a write is rejected runs no render pass and
\* leaves the known-id sets, the cached snapshots and the elements as they are
C30_ButtonCycle ==
  /\ [](write = "pending" => btn.disabled)
  /\ (write \in { "ok", "failed" } /\ btn.disabled) ~> ~btn.disabled
  /\ [][ (write = "pending" /\ write' = "failed") =>
           /\ last' = last
           /\ renderedIds' = renderedIds
           /\ lastData' = lastData
           /\ dom' = dom ]_vars

\* after a snapshot pass has created an element, a write was rejected and the
\* button has been enabled again
C30_Witness ==
  /\ write = "failed"
  /\ btn = [disabled |-> FALSE, label |-> "plus"]
  /\ pending.enable = 0
  /\ last.kind = "snapshot"
  /\ Len(dom["myBubbleField"]) = 1

====
